---- MODULE Spec2Model ----
(***************************************************************************)
(* A model of the blather chat server (server_funcs.c, bl_server.c) and of *)
(* the client processes that talk to it (bl_client.c) over named pipes.    *)
(*                                                                         *)
(* The specifications:                                                     *)
(*   Spec      the service functions of server_funcs.c that keep the       *)
(*             client table and broadcast, each called as a whole, in any  *)
(*             order, next to client processes that join and read;         *)
(*   SpecMsg   the same table functions with server_handle_client, next    *)
(*             to client processes that also send lines and depart;        *)
(*   SpecMain  the program bl_server.c: its main loop and its signal       *)
(*             handler, next to the client processes;                      *)
(*   SpecPoll  server_check_sources and server_handle_client on a table    *)
(*             that server_add_client has filled, with records of every    *)
(*             kind in the clients' FIFOs;                                 *)
(*   SpecClient  the program bl_client.c with main, user_worker and        *)
(*             server_worker each at their own pace, next to a caller of   *)
(*             the service functions; SpecClientFair adds fair scheduling; *)
(*   SpecLeave SpecClient with the client's signal handler grace_leave;    *)
(*   SpecFault the table functions when a close may fail.                  *)
(* Outside SpecFault, system calls on valid descriptors succeed; a call on *)
(* a closed descriptor or a missing path fails as the kernel makes it fail.*)
(***************************************************************************)
EXTENDS Integers, Sequences, FiniteSets, TLC

\* ------------------------------------------------------------------ bounds
\* blather.h is not part of the sources at hand; MAXCLIENTS is the capacity
\* of server_t.client[], scaled down to keep the table enumerable.
MAXCLIENTS == 2
\* Client processes that may ever start (their pids are 1..NumProcs): one more
\* than the table holds, so that a join can meet a full table.
NumProcs == MAXCLIENTS + 1
\* Capacity of a client's pipe, in records: a write to a full pipe blocks.
MaxQueue == 2
\* The clock time(NULL) reads runs from 0 to MaxTime.
MaxTime == 1
\* SIGINT/SIGTERM deliveries to the server process.
MaxSignals == 2
\* Records the users of all clients type in all (lines and ends of input).
MaxSends == 1
\* Direct calls of server_broadcast.
MaxBroadcasts == 1
\* Records written to the to-server FIFOs in SpecPoll, over all clients.
MaxWrites == 2

Procs == 1..NumProcs
\* argv[2] of client process p; two processes may share a name.
ClientName(p) == IF p % 2 = 1 THEN "A" ELSE "B"
\* The line typed as the k-th record (k counts from 0, over all clients).
BodyOf(k) == IF k % 2 = 0 THEN "a" ELSE "b"

\* argv[1] of server and clients.
ServerName == "srv"

\* mesg_kind_t of blather.h, by name.
BL_MESG == "BL_MESG"
BL_JOINED == "BL_JOINED"
BL_DEPARTED == "BL_DEPARTED"
BL_SHUTDOWN == "BL_SHUTDOWN"
BL_DISCONNECTED == "BL_DISCONNECTED"
BL_PING == "BL_PING"
\* memset(&mesg, 0, ...) leaves kind 0, which names no kind.
BL_NONE == "0"

\* ------------------------------------------------------------------ names
\* strcpy(fifo_name, server_name); strcat(fifo_name, ".fifo")
JoinFifoName(server_name) == server_name \o ".fifo"
\* sprintf(pid, "%d", getpid()); strcat(.., ".server.fifo")
ToServerFname(p) == ToString(p) \o ".server.fifo"
ToClientFname(p) == ToString(p) \o ".client.fifo"

PipePaths ==
  {JoinFifoName(ServerName)} \cup {ToServerFname(p) : p \in Procs}
                             \cup {ToClientFname(p) : p \in Procs}

\* ------------------------------------------------------------------ records
Mesg(kind, name, body) == [kind |-> kind, name |-> name, body |-> body]
Join(name, p) ==
  [name |-> name, to_client_fname |-> ToClientFname(p),
   to_server_fname |-> ToServerFname(p)]

\* A zeroed client_t (the global server_t starts zeroed).
ZeroClient ==
  [name |-> "", to_client_fd |-> 0, to_server_fd |-> 0,
   to_client_fname |-> "", to_server_fname |-> "",
   last_contact_time |-> 0, data_ready |-> 0]

\* ------------------------------------------------------------------ descriptors
NoFile == ""
Tty == "tty"
\* 0..2 are the terminal, 3 the join FIFO; the table has room for two
\* descriptors per client process.
MaxFd == 3 + 2 * NumProcs
FdRange == 0..MaxFd

Min(S) == CHOOSE x \in S : \A y \in S : x <= y

VARIABLES
  server,   \* server_t: n_clients, client[], join_fd, join_ready, log_fd
  fdtab,    \* the server process's descriptor table: fd -> path, or NoFile
  fs,       \* the paths that exist in the filesystem
  pipe,     \* contents of every FIFO, oldest record first
  alive,    \* the server process has not exited
  now,      \* what time(NULL) returns
  cproc,    \* client processes: st in off/on/done, the name given, and
            \* where main (m), user_worker (u) and server_worker (r) are
  pc,       \* bl_server.c main: the statement it is at
  li,       \* bl_server.c main: the loop variable i
  nsent,    \* records typed in so far, over all clients
  nbcast,   \* direct calls of server_broadcast so far
  shut,     \* calls of server_shutdown that have returned
  last,     \* the last server operation that ran, with what it returned
  got       \* the record that operation read (kind 0 when it read none)

vars == <<server, fdtab, fs, pipe, alive, now, cproc, pc, li, nsent, nbcast, shut, last, got>>

\* The part of the state the server functions read and write, as one value;
\* ret is what the last call returned, rd the record the last read took, and
\* fault the close that is to fail (0: none does).
World ==
  [server |-> server, fdtab |-> fdtab, fs |-> fs, pipe |-> pipe,
   alive |-> alive, now |-> now, ret |-> 0, rd |-> Mesg(BL_NONE, "", ""),
   fault |-> 0]

\* ------------------------------------------------------------------ system calls
\* check_fail(cond, ...) with cond true: a diagnostic, then exit(1).
Exit(w) == [w EXCEPT !.alive = FALSE, !.ret = -1]

IsOpen(w, fd) == fd \in FdRange /\ w.fdtab[fd] # NoFile

\* open(path, O_RDWR): the lowest free descriptor, or -1.
sys_open(w, path) ==
  LET free == {fd \in FdRange : w.fdtab[fd] = NoFile} IN
  IF path \in w.fs /\ free # {}
    THEN [w EXCEPT !.fdtab[Min(free)] = path, !.ret = Min(free)]
    ELSE [w EXCEPT !.ret = -1]

\* close(fd): -1 (EBADF) on a descriptor that is not open.  w.fault = k > 0
\* says the k-th close of an open descriptor from here on fails (EIO, EINTR):
\* the kernel lets go of the descriptor all the same and returns -1.
sys_close(w, fd) ==
  IF ~IsOpen(w, fd) THEN [w EXCEPT !.ret = -1]
  ELSE [w EXCEPT !.fdtab[fd] = NoFile,
                 !.fault = IF @ > 0 THEN @ - 1 ELSE 0,
                 !.ret = IF w.fault = 1 THEN -1 ELSE 0]

\* remove(path): unlinks the path if it is there.
sys_remove(w, path) == [w EXCEPT !.fs = @ \ {path}]

\* write(fd, rec, sizeof rec): appends one record to the pipe fd refers to.
sys_write(w, fd, rec) ==
  IF ~IsOpen(w, fd) THEN [w EXCEPT !.ret = -1]
  ELSE IF w.fdtab[fd] \in DOMAIN w.pipe
    THEN [w EXCEPT !.pipe[w.fdtab[fd]] = Append(@, rec), !.ret = 1]
    ELSE [w EXCEPT !.ret = 1]

\* read(fd, &rec, sizeof rec) returns at once: the descriptor is bad, or a
\* record waits in the pipe.  Otherwise the caller blocks.
ReadReturns(w, fd) ==
  \/ ~IsOpen(w, fd)
  \/ /\ w.fdtab[fd] \in DOMAIN w.pipe
     /\ w.pipe[w.fdtab[fd]] # <<>>

\* read(fd, &rec, sizeof rec): takes the oldest record of the pipe.
sys_read(w, fd) ==
  IF ~IsOpen(w, fd) THEN [w EXCEPT !.ret = -1]
  ELSE IF w.fdtab[fd] \in DOMAIN w.pipe /\ w.pipe[w.fdtab[fd]] # <<>>
    THEN [w EXCEPT !.rd = Head(w.pipe[w.fdtab[fd]]),
                   !.pipe[w.fdtab[fd]] = Tail(@), !.ret = 1]
    ELSE [w EXCEPT !.ret = 0]

\* ------------------------------------------------------------------ server_funcs.c
\* server_get_client: check_fail(idx >= n_clients) guards &server->client[idx].
GetClientFails(w, idx) == idx >= w.server.n_clients

\* server_start, after which the model begins.
server_start(w, server_name) ==
  LET fifo_name == JoinFifoName(server_name)
      w1 == [sys_remove(w, fifo_name) EXCEPT !.fs = @ \cup {fifo_name}]
      w2 == sys_open(w1, fifo_name)
  IN  IF w2.ret = -1 THEN Exit(w2)
      ELSE [w2 EXCEPT !.server.join_fd = w2.ret]

\* server_broadcast: for (i = 0; i < n_clients; ++i) write(client i's to_client_fd).
RECURSIVE BroadcastFrom(_, _, _)
BroadcastFrom(w, mesg, i) ==
  IF ~w.alive \/ i >= w.server.n_clients THEN w
  ELSE LET w1 == sys_write(w, w.server.client[i].to_client_fd, mesg) IN
       IF w1.ret = -1 THEN Exit(w1)
       ELSE BroadcastFrom(w1, mesg, i + 1)

\* Mutant: the loop starts at slot 1.
server_broadcast_from_1(w, mesg) == BroadcastFrom(w, mesg, 1)

server_broadcast(w, mesg) == BroadcastFrom(w, mesg, 0)

\* server_add_client past its capacity test: the record is filled in, the
\* two FIFOs are opened, the record is stored and BL_JOINED is broadcast.
AppendClient(w, join) ==
  LET w1 == sys_open(w, join.to_client_fname) IN
  IF w1.ret = -1 THEN Exit(w1)
  ELSE
    LET w2 == sys_open(w1, join.to_server_fname) IN
    IF w2.ret = -1 THEN Exit(w2)
    ELSE
      LET c == [name |-> join.name,
                to_client_fd |-> w1.ret, to_server_fd |-> w2.ret,
                to_client_fname |-> join.to_client_fname,
                to_server_fname |-> join.to_server_fname,
                last_contact_time |-> w.now, data_ready |-> 0]
          w3 == [w2 EXCEPT !.server.client[w.server.n_clients] = c,
                           !.server.n_clients = @ + 1]
          w4 == server_broadcast(w3, Mesg(BL_JOINED, c.name, ""))
      IN  IF w4.alive THEN [w4 EXCEPT !.ret = 0] ELSE w4

\* Mutant: the capacity test reads > for >=, so a join that meets a full
\* table stores its record one past the end of client[] and counts it.
server_add_client_gt(w, join) ==
  IF w.server.n_clients > MAXCLIENTS THEN [w EXCEPT !.ret = -1]
  ELSE IF w.server.n_clients = MAXCLIENTS
    THEN [w EXCEPT !.server.n_clients = @ + 1, !.ret = 0]
    ELSE AppendClient(w, join)

\* Mutant: the capacity test comes after the two FIFOs are opened.
server_add_client_late_test(w, join) ==
  IF w.server.n_clients >= MAXCLIENTS
    THEN [sys_open(sys_open(w, join.to_client_fname), join.to_server_fname)
            EXCEPT !.ret = -1]
    ELSE AppendClient(w, join)

\* server_add_client
server_add_client(w, join) ==
  IF w.server.n_clients >= MAXCLIENTS THEN [w EXCEPT !.ret = -1]
  ELSE AppendClient(w, join)

\* Mutant: the shift loop starts at slot 0 instead of slot idx.
server_remove_client_shift_from_0(w, idx) ==
  IF idx >= w.server.n_clients THEN [w EXCEPT !.ret = -1]
  ELSE
    LET c  == w.server.client[idx]
        w1 == sys_close(w, c.to_client_fd)
    IN
    IF w1.ret = -1 THEN w1
    ELSE
      LET w2 == sys_close(w1, c.to_server_fd) IN
      IF w2.ret = -1 THEN w2
      ELSE
        LET w3 == sys_remove(sys_remove(w2, c.to_client_fname), c.to_server_fname)
            n  == w.server.n_clients
        IN [w3 EXCEPT
              !.server.client = [j \in DOMAIN @ |->
                                   IF j < n - 1 THEN @[j + 1] ELSE @[j]],
              !.server.n_clients = n - 1,
              !.ret = 0]

\* server_remove_client
server_remove_client(w, idx) ==
  IF idx >= w.server.n_clients THEN [w EXCEPT !.ret = -1]
  ELSE
    LET c  == w.server.client[idx]
        w1 == sys_close(w, c.to_client_fd)
    IN
    IF w1.ret = -1 THEN w1
    ELSE
      LET w2 == sys_close(w1, c.to_server_fd) IN
      IF w2.ret = -1 THEN w2
      ELSE
        LET w3 == sys_remove(sys_remove(w2, c.to_client_fname), c.to_server_fname)
            n  == w.server.n_clients
        IN [w3 EXCEPT
              !.server.client = [j \in DOMAIN @ |->
                                   IF j >= idx /\ j < n - 1 THEN @[j + 1] ELSE @[j]],
              !.server.n_clients = n - 1,
              !.ret = 0]

\* server_shutdown: for (i = 0; i < n_clients; ++i) server_remove_client(server, i);
RECURSIVE ShutdownRemoveFrom(_, _)
ShutdownRemoveFrom(w, i) ==
  IF i >= w.server.n_clients THEN w
  ELSE ShutdownRemoveFrom(server_remove_client(w, i), i + 1)

\* Mutant: the clients are removed first and BL_SHUTDOWN is broadcast after.
server_shutdown_remove_first(w) ==
  LET w1 == sys_close(w, w.server.join_fd)
      w2 == sys_remove(w1, ServerName)
      w3 == server_broadcast(ShutdownRemoveFrom(w2, 0), Mesg(BL_SHUTDOWN, "", ""))
  IN  IF ~w3.alive THEN w3
      ELSE [sys_close(w3, w3.server.log_fd) EXCEPT !.ret = 0]

\* server_shutdown
server_shutdown(w) ==
  LET w1 == sys_close(w, w.server.join_fd)
      w2 == sys_remove(w1, ServerName)
      w3 == server_broadcast(w2, Mesg(BL_SHUTDOWN, "", ""))
  IN  IF ~w3.alive THEN w3
      ELSE [sys_close(ShutdownRemoveFrom(w3, 0), w3.server.log_fd) EXCEPT !.ret = 0]

\* poll(poll_fds, POLLIN, -1): the count is POLLIN, which is 1, so slot 0 (the
\* join FIFO) is the one descriptor polled.  It returns when that descriptor is
\* readable, or at once with POLLNVAL when it is not open.
PollReturns(w) == ReadReturns(w, w.server.join_fd)

\* server_check_sources, for (i = 0; i < n_clients; ++i)
\*   poll_fds[i + 2].fd = server->client[i + 2].to_server_fd;
\* the slots of client[] that the loop reads.
PollFdClientSlots(w) == {i + 2 : i \in 0..(w.server.n_clients - 1)}

\* Mutant: an interrupted poll is taken for one that found the join FIFO
\* readable.
server_check_sources_flags_on_eintr(w, interrupted) ==
  IF interrupted THEN [w EXCEPT !.server.join_ready = 1]
  ELSE IF IsOpen(w, w.server.join_fd) /\ PollReturns(w)
    THEN [w EXCEPT !.server.join_ready = 1]
    ELSE w

\* server_check_sources; interrupted says poll returned -1.
server_check_sources(w, interrupted) ==
  IF interrupted THEN w
  ELSE IF IsOpen(w, w.server.join_fd) /\ PollReturns(w)
    THEN [w EXCEPT !.server.join_ready = 1]
    ELSE w

\* server_join_ready
server_join_ready(w) == w.server.join_ready

\* Mutant: join_ready is left as it is.
server_handle_join_keeps_flag(w) ==
  LET w1 == sys_read(w, w.server.join_fd) IN
  IF w1.ret = -1 THEN Exit(w1)
  ELSE [w1 EXCEPT !.ret = 0]

\* server_handle_join
server_handle_join(w) ==
  LET w1 == sys_read(w, w.server.join_fd) IN
  IF w1.ret = -1 THEN Exit(w1)
  ELSE [w1 EXCEPT !.server.join_ready = 0, !.ret = 0]

\* server_client_ready: the data_ready flag, or -1 for the check_fail on idx.
server_client_ready(w, idx) ==
  IF idx >= w.server.n_clients THEN -1 ELSE w.server.client[idx].data_ready

\* The switch of server_handle_client has one case label, default: the lines
\* BL_DEPARTED:, BL_MESG:, BL_DISCONNECTED:, BL_PING: and BL_SHUTDOWN: lack the
\* keyword case, so they are plain labels and every kind lands on default.
SwitchLabel(kind) == "default"

\* Mutant: a BL_PING record is broadcast like a BL_MESG.
server_handle_client_ping_echo(w, idx) ==
  IF GetClientFails(w, idx) THEN Exit(w)
  ELSE
    LET w1 == sys_read(w, w.server.client[idx].to_server_fd) IN
    IF w1.ret = -1 THEN Exit(w1)
    ELSE
      LET w2 == [w1 EXCEPT !.server.client[idx].data_ready = 0,
                           !.server.client[idx].last_contact_time = w.now]
      IN  IF w1.rd.kind = BL_PING THEN server_broadcast(w2, w1.rd) ELSE w2

\* server_handle_client
server_handle_client(w, idx) ==
  IF GetClientFails(w, idx) THEN Exit(w)
  ELSE
    LET w1 == sys_read(w, w.server.client[idx].to_server_fd) IN
    IF w1.ret = -1 THEN Exit(w1)
    ELSE
      LET w2 == [w1 EXCEPT !.server.client[idx].data_ready = 0,
                           !.server.client[idx].last_contact_time = w.now]
          mesg == w1.rd
          label == SwitchLabel(mesg.kind)
      IN  CASE label = BL_DEPARTED ->
                 server_broadcast(server_remove_client(w2, idx), mesg)
            [] label = BL_MESG -> server_broadcast(w2, mesg)
            [] OTHER -> w2

\* ------------------------------------------------------------------ initial state
ZeroWorld ==
  [server |-> [n_clients |-> 0,
               client |-> [j \in 0..(MAXCLIENTS - 1) |-> ZeroClient],
               join_fd |-> 0, join_ready |-> 0, log_fd |-> 0],
   fdtab |-> [fd \in FdRange |-> IF fd <= 2 THEN Tty ELSE NoFile],
   fs |-> {},
   pipe |-> [path \in PipePaths |-> <<>>],
   alive |-> TRUE, now |-> 0, ret |-> 0, rd |-> Mesg(BL_NONE, "", ""),
   fault |-> 0]

\* bl_server.c main has run up to the head of its loop: server_start is done.
Init ==
  LET w == server_start(ZeroWorld, ServerName) IN
  /\ server = w.server
  /\ fdtab = w.fdtab
  /\ fs = w.fs
  /\ pipe = w.pipe
  /\ alive = w.alive
  /\ now = 0
  /\ cproc = [p \in Procs |-> [st |-> "off", name |-> "",
                                m |-> "none", u |-> "none", r |-> "none"]]
  /\ pc = "check"
  /\ li = 0
  /\ nsent = 0
  /\ nbcast = 0
  /\ shut = 0
  /\ last = [op |-> "start", ret |-> 0]
  /\ got = Mesg(BL_NONE, "", "")

\* A call has returned (or ended the process) and left the world w.
Apply(w, op) ==
  /\ server' = w.server
  /\ fdtab' = w.fdtab
  /\ fs' = w.fs
  /\ pipe' = w.pipe
  /\ alive' = w.alive
  /\ last' = [op |-> op, ret |-> w.ret]
  /\ got' = w.rd

\* Every process writes one join record, so the join FIFO never fills up.
Capacity(path) == IF path = JoinFifoName(ServerName) THEN NumProcs ELSE MaxQueue

\* No write of the call had to wait for room in a pipe.
Fits(w) == \A path \in DOMAIN w.pipe : Len(w.pipe[path]) <= Capacity(path)

\* ------------------------------------------------------------------ client processes
\* bl_client.c main: make the two FIFOs, open the join FIFO, write the join
\* record, start the workers.
ClientStart(p) ==
  /\ cproc[p].st = "off"
  /\ \A q \in Procs : q < p => cproc[q].st # "off"   \* pids are handed out in order
  /\ fs' = fs \cup {ToServerFname(p), ToClientFname(p)}
  /\ IF JoinFifoName(ServerName) \in fs
       THEN /\ Len(pipe[JoinFifoName(ServerName)]) < Capacity(JoinFifoName(ServerName))
            /\ pipe' = [pipe EXCEPT ![JoinFifoName(ServerName)] =
                                       Append(@, Join(ClientName(p), p))]
            /\ cproc' = [cproc EXCEPT ![p].st = "on", ![p].name = ClientName(p)]
       ELSE /\ pipe' = pipe
            /\ cproc' = [cproc EXCEPT ![p].st = "done", ![p].name = ClientName(p)]
  /\ UNCHANGED <<server, fdtab, alive, now, pc, li, nsent, nbcast, shut, last, got>>

\* user_worker, a completed line: a BL_MESG record goes to the server.
ClientSend(p) ==
  /\ cproc[p].st = "on"
  /\ nsent < MaxSends
  /\ nsent' = nsent + 1
  /\ Len(pipe[ToServerFname(p)]) < MaxQueue
  /\ pipe' = [pipe EXCEPT ![ToServerFname(p)] =
                             Append(@, Mesg(BL_MESG, cproc[p].name, BodyOf(nsent)))]
  /\ UNCHANGED <<server, fdtab, fs, alive, now, cproc, pc, li, nbcast, shut, last, got>>

\* user_worker, end of input: a BL_DEPARTED record, then both workers end.
ClientEOF(p) ==
  /\ cproc[p].st = "on"
  /\ nsent < MaxSends
  /\ nsent' = nsent + 1
  /\ Len(pipe[ToServerFname(p)]) < MaxQueue
  /\ pipe' = [pipe EXCEPT ![ToServerFname(p)] =
                             Append(@, Mesg(BL_DEPARTED, cproc[p].name, ""))]
  /\ cproc' = [cproc EXCEPT ![p].st = "done"]
  /\ UNCHANGED <<server, fdtab, fs, alive, now, pc, li, nbcast, shut, last, got>>

\* server_worker: read one record; answer a BL_PING, end on BL_SHUTDOWN.
ClientRead(p) ==
  /\ cproc[p].st = "on"
  /\ pipe[ToClientFname(p)] # <<>>
  /\ LET mesg == Head(pipe[ToClientFname(p)])
         rest == [pipe EXCEPT ![ToClientFname(p)] = Tail(@)]
     IN  /\ IF mesg.kind = BL_PING
              THEN /\ Len(pipe[ToServerFname(p)]) < MaxQueue
                   /\ pipe' = [rest EXCEPT ![ToServerFname(p)] =
                                 Append(@, Mesg(BL_PING, cproc[p].name, ""))]
              ELSE pipe' = rest
         /\ cproc' = [cproc EXCEPT ![p].st =
                        IF mesg.kind = BL_SHUTDOWN THEN "done" ELSE @]
  /\ UNCHANGED <<server, fdtab, fs, alive, now, pc, li, nsent, nbcast, shut, last, got>>

\* ------------------------------------------------------------------ bl_client.c, thread by thread
\* main up to its first pthread_create: as ClientStart, and user_worker runs.
\* server_thread is a zeroed global until the second pthread_create.
ClientMain(p) ==
  /\ cproc[p].st = "off"
  /\ \A q \in Procs : q < p => cproc[q].st # "off"
  /\ fs' = fs \cup {ToServerFname(p), ToClientFname(p)}
  /\ IF JoinFifoName(ServerName) \in fs
       THEN /\ Len(pipe[JoinFifoName(ServerName)]) < Capacity(JoinFifoName(ServerName))
            /\ pipe' = [pipe EXCEPT ![JoinFifoName(ServerName)] =
                                       Append(@, Join(ClientName(p), p))]
            /\ cproc' = [cproc EXCEPT ![p] =
                           [st |-> "on", name |-> ClientName(p),
                            m |-> "create", u |-> "input", r |-> "none"]]
       ELSE /\ pipe' = pipe
            /\ cproc' = [cproc EXCEPT ![p].st = "done", ![p].name = ClientName(p)]
  /\ UNCHANGED <<server, fdtab, alive, now, pc, li, nsent, nbcast, shut, last, got>>

\* main, pthread_create(&server_thread, NULL, server_worker, NULL), and on
\* to pthread_join(user_thread, NULL).
MainCreateReader(p) ==
  /\ cproc[p].st = "on" /\ cproc[p].m = "create"
  /\ cproc' = [cproc EXCEPT ![p].m = "join_user", ![p].r = "poll"]
  /\ UNCHANGED <<server, fdtab, fs, pipe, alive, now, pc, li, nsent, nbcast, shut, last, got>>

\* main, pthread_join(user_thread, NULL) returns: user_worker has ended.
MainJoinUser(p) ==
  /\ cproc[p].st = "on" /\ cproc[p].m = "join_user"
  /\ cproc[p].u \in {"returned", "cancelled"}
  /\ cproc' = [cproc EXCEPT ![p].m = "join_reader"]
  /\ UNCHANGED <<server, fdtab, fs, pipe, alive, now, pc, li, nsent, nbcast, shut, last, got>>

\* main, pthread_join(server_thread, NULL) returns, the three closes, return 0.
MainJoinReader(p) ==
  /\ cproc[p].st = "on" /\ cproc[p].m = "join_reader"
  /\ cproc[p].r \in {"returned", "cancelled"}
  /\ cproc' = [cproc EXCEPT ![p].m = "returned", ![p].st = "done"]
  /\ UNCHANGED <<server, fdtab, fs, pipe, alive, now, pc, li, nsent, nbcast, shut, last, got>>

\* user_worker, a completed line: the BL_MESG record is written and the
\* worker is back in its input loop.
UserLine(p) ==
  /\ cproc[p].st = "on" /\ cproc[p].u = "input"
  /\ nsent < MaxSends
  /\ nsent' = nsent + 1
  /\ Len(pipe[ToServerFname(p)]) < MaxQueue
  /\ pipe' = [pipe EXCEPT ![ToServerFname(p)] =
                             Append(@, Mesg(BL_MESG, cproc[p].name, BodyOf(nsent)))]
  /\ UNCHANGED <<server, fdtab, fs, alive, now, cproc, pc, li, nbcast, shut, last, got>>

\* user_worker, end of input: the BL_DEPARTED record is written and the
\* loop is left; pthread_cancel(server_thread) is the next statement.
UserEOF(p) ==
  /\ cproc[p].st = "on" /\ cproc[p].u = "input"
  /\ Len(pipe[ToServerFname(p)]) < MaxQueue
  /\ pipe' = [pipe EXCEPT ![ToServerFname(p)] =
                             Append(@, Mesg(BL_DEPARTED, cproc[p].name, ""))]
  /\ cproc' = [cproc EXCEPT ![p].u = "cancel"]
  /\ UNCHANGED <<server, fdtab, fs, alive, now, pc, li, nsent, nbcast, shut, last, got>>

\* What pthread_cancel may do with a thread id that names no thread (the
\* zeroed server_thread, the id of a thread that was joined): nothing, or
\* it ends the process with a fault.
StaleCancel == {"nothing", "fault"}

\* user_worker, pthread_cancel(server_thread); return NULL.  A server_worker
\* that waits in poll or read is cancelled there; one past its loop is not
\* touched.  Before main's second pthread_create, server_thread is still 0.
UserCancel(p, stale) ==
  /\ cproc[p].st = "on" /\ cproc[p].u = "cancel"
  /\ cproc' =
       IF cproc[p].r = "none"
         THEN IF stale = "fault"
                THEN [cproc EXCEPT ![p].st = "done", ![p].m = "fault"]
                ELSE [cproc EXCEPT ![p].u = "returned"]
         ELSE [cproc EXCEPT ![p].u = "returned",
                            ![p].r = IF @ = "poll" THEN "cancelled" ELSE @]
  /\ UNCHANGED <<server, fdtab, fs, pipe, alive, now, pc, li, nsent, nbcast, shut, last, got>>

\* Mutant: a BL_PING is read and not answered.
ReaderRead_no_reply(p) ==
  /\ cproc[p].st = "on" /\ cproc[p].r = "poll"
  /\ pipe[ToClientFname(p)] # <<>>
  /\ pipe' = [pipe EXCEPT ![ToClientFname(p)] = Tail(@)]
  /\ cproc' = [cproc EXCEPT ![p].r =
                 IF Head(pipe[ToClientFname(p)]).kind = BL_SHUTDOWN
                   THEN "cancel" ELSE @]
  /\ UNCHANGED <<server, fdtab, fs, alive, now, pc, li, nsent, nbcast, shut, last, got>>

\* server_worker, one turn of its loop: poll, read, the switch (a BL_PING is
\* answered with a BL_PING that bears the client's name); after a
\* BL_SHUTDOWN, pthread_cancel(user_thread) is the next statement.
ReaderRead(p) ==
  /\ cproc[p].st = "on" /\ cproc[p].r = "poll"
  /\ pipe[ToClientFname(p)] # <<>>
  /\ LET mesg == Head(pipe[ToClientFname(p)])
         rest == [pipe EXCEPT ![ToClientFname(p)] = Tail(@)]
     IN  /\ IF mesg.kind = BL_PING
              THEN /\ Len(pipe[ToServerFname(p)]) < MaxQueue
                   /\ pipe' = [rest EXCEPT ![ToServerFname(p)] =
                                 Append(@, Mesg(BL_PING, cproc[p].name, ""))]
              ELSE pipe' = rest
         /\ cproc' = [cproc EXCEPT ![p].r =
                        IF mesg.kind = BL_SHUTDOWN THEN "cancel" ELSE @]
  /\ UNCHANGED <<server, fdtab, fs, alive, now, pc, li, nsent, nbcast, shut, last, got>>

\* server_worker, pthread_cancel(user_thread); break; return NULL.  A
\* user_worker in its input loop is cancelled there; one past its loop is
\* not touched.  Once main has joined user_thread, its id names no thread.
ReaderCancel(p, stale) ==
  /\ cproc[p].st = "on" /\ cproc[p].r = "cancel"
  /\ cproc' =
       IF cproc[p].m = "join_reader"
         THEN IF stale = "fault"
                THEN [cproc EXCEPT ![p].st = "done", ![p].m = "fault"]
                ELSE [cproc EXCEPT ![p].r = "returned"]
         ELSE [cproc EXCEPT ![p].r = "returned",
                            ![p].u = IF @ = "input" THEN "cancelled" ELSE @]
  /\ UNCHANGED <<server, fdtab, fs, pipe, alive, now, pc, li, nsent, nbcast, shut, last, got>>

\* SIGINT or SIGTERM in the client: grace_leave writes a BL_DEPARTED record
\* that bears the client's name to client->to_server_fd and calls exit(0),
\* whatever the three threads are doing.  The handler is taken from the first
\* pthread_create on, when the FIFOs are open.
GraceLeave(p) ==
  /\ cproc[p].st = "on"
  /\ Len(pipe[ToServerFname(p)]) < MaxQueue
  /\ pipe' = [pipe EXCEPT ![ToServerFname(p)] =
                             Append(@, Mesg(BL_DEPARTED, cproc[p].name, ""))]
  /\ cproc' = [cproc EXCEPT ![p].st = "done", ![p].m = "exited"]
  /\ UNCHANGED <<server, fdtab, fs, alive, now, pc, li, nsent, nbcast, shut, last, got>>

\* The kinds a record in a to-server FIFO may bear.  bl_client.c writes
\* BL_MESG, BL_DEPARTED and BL_PING; a FIFO is a path in the filesystem, so
\* any other process may put a record of any kind into it.
WriteKinds ==
  {BL_MESG, BL_DEPARTED, BL_PING, BL_DISCONNECTED, BL_SHUTDOWN, BL_NONE}

\* write(client->to_server_fd, &mesg, sizeof(mesg_t)) with a record of the
\* given kind that bears the client's name, by a client of the table (no
\* service function reads the FIFO of a client that is not in the table).
ClientWrite(p, kind) ==
  /\ cproc[p].st = "on"
  /\ \E j \in 0..(server.n_clients - 1) :
        server.client[j].to_server_fname = ToServerFname(p)
  /\ nsent < MaxWrites
  /\ nsent' = nsent + 1
  /\ Len(pipe[ToServerFname(p)]) < MaxQueue
  /\ pipe' = [pipe EXCEPT ![ToServerFname(p)] =
                Append(@, Mesg(kind, cproc[p].name,
                               IF kind = BL_MESG THEN BodyOf(nsent) ELSE ""))]
  /\ UNCHANGED <<server, fdtab, fs, alive, now, cproc, pc, li, nbcast, shut, last, got>>

\* time(NULL) moves on.
Tick ==
  /\ now < MaxTime
  /\ now' = now + 1
  /\ UNCHANGED <<server, fdtab, fs, pipe, alive, cproc, pc, li, nsent, nbcast, shut, last, got>>

\* ------------------------------------------------------------------ calls of the service functions
\* The records a caller may hand to server_broadcast.
BroadcastInputs == {Mesg(BL_PING, "", ""), Mesg(BL_MESG, "A", "a")}

\* The client at some slot below n_clients has these FIFO paths.
InTable(p) ==
  \E j \in 0..(server.n_clients - 1) :
     server.client[j].to_client_fname = ToClientFname(p)

\* A caller uses the server until it has shut it down.
Callable == alive /\ shut = 0

\* server_add_client with the join record of a client process whose FIFOs
\* are on disk; a process's join record is handed over once.
AddClient(p) ==
  /\ Callable
  /\ cproc[p].st # "off"
  /\ {ToClientFname(p), ToServerFname(p)} \subseteq fs
  /\ ~InTable(p)
  /\ LET w == server_add_client(World, Join(cproc[p].name, p)) IN
       Fits(w) /\ Apply(w, "add_client")
  /\ UNCHANGED <<now, cproc, pc, li, nsent, nbcast, shut>>

RemoveClient(idx) ==
  /\ Callable
  /\ Apply(server_remove_client(World, idx), "remove_client")
  /\ UNCHANGED <<now, cproc, pc, li, nsent, nbcast, shut>>

\* server_remove_client at an index of the table, when the k-th close it
\* makes fails.
RemoveClientCloseFails(idx, k) ==
  /\ Callable
  /\ idx < server.n_clients
  /\ Apply(server_remove_client([World EXCEPT !.fault = k], idx), "remove_client")
  /\ UNCHANGED <<now, cproc, pc, li, nsent, nbcast, shut>>

Broadcast(mesg) ==
  /\ Callable
  /\ nbcast < MaxBroadcasts
  /\ nbcast' = nbcast + 1
  /\ LET w == server_broadcast(World, mesg) IN
       Fits(w) /\ Apply([w EXCEPT !.ret = 0], "broadcast")
  /\ UNCHANGED <<now, cproc, pc, li, nsent, shut>>

\* server_check_sources never raises data_ready (see PollReturns), so the
\* call is made on any client whose FIFO holds a record.
HandleClient(idx) ==
  /\ Callable
  /\ idx < server.n_clients
  /\ ReadReturns(World, server.client[idx].to_server_fd)
  /\ LET w == server_handle_client(World, idx) IN
       Fits(w) /\ Apply([w EXCEPT !.ret = 0], "handle_client")
  /\ UNCHANGED <<now, cproc, pc, li, nsent, nbcast, shut>>

\* server_check_sources, when its poll returns on its own.
CheckSources ==
  /\ Callable
  /\ PollReturns(World)
  /\ Apply(server_check_sources(World, FALSE), "check_sources")
  /\ UNCHANGED <<now, cproc, pc, li, nsent, nbcast, shut>>

Shutdown ==
  /\ Callable
  /\ LET w == server_shutdown(World) IN
       Fits(w) /\ Apply(w, "shutdown")
  /\ shut' = shut + 1
  /\ UNCHANGED <<now, cproc, pc, li, nsent, nbcast>>

\* ------------------------------------------------------------------ bl_server.c
\* main, server_check_sources(&server): poll returns on its own.
MainCheckSources ==
  /\ alive /\ pc = "check"
  /\ PollReturns(World)
  /\ Apply(server_check_sources(World, FALSE), "check_sources")
  /\ pc' = "join"
  /\ UNCHANGED <<now, cproc, li, nsent, nbcast, shut>>

\* main, if (server_join_ready(&server)) server_handle_join(&server);
MainJoin ==
  /\ alive /\ pc = "join"
  /\ IF server_join_ready(World) # 0
       THEN /\ ReadReturns(World, server.join_fd)
            /\ Apply(server_handle_join(World), "handle_join")
       ELSE UNCHANGED <<server, fdtab, fs, pipe, alive, last, got>>
  /\ pc' = "clients"
  /\ li' = 0
  /\ UNCHANGED <<now, cproc, nsent, nbcast, shut>>

\* main, one turn of for (i = 0; i < server.n_clients; i++), or the way
\* out of it, back to the head of while (1).
MainClients ==
  /\ alive /\ pc = "clients"
  /\ IF li < server.n_clients
       THEN /\ IF server_client_ready(World, li) # 0
                 THEN /\ ReadReturns(World, server.client[li].to_server_fd)
                      /\ LET w == server_handle_client(World, li) IN
                           Fits(w) /\ Apply([w EXCEPT !.ret = 0], "handle_client")
                 ELSE UNCHANGED <<server, fdtab, fs, pipe, alive, last, got>>
            /\ li' = li + 1
            /\ pc' = pc
       ELSE /\ pc' = "check"
            /\ UNCHANGED <<server, fdtab, fs, pipe, alive, last, got, li>>
  /\ UNCHANGED <<now, cproc, nsent, nbcast, shut>>

\* SIGINT or SIGTERM: grace_shutdown runs server_shutdown(&server) on top of
\* whatever main is doing.  A poll that the signal interrupts (inPoll)
\* returns -1 and server_check_sources returns at once.
Signal(inPoll) ==
  /\ alive
  /\ shut < MaxSignals
  /\ LET w1 == server_shutdown(World)
         w  == IF inPoll /\ pc = "check"
                 THEN [server_check_sources(w1, TRUE) EXCEPT !.ret = w1.ret]
                 ELSE w1
     IN  Fits(w) /\ Apply(w, "shutdown")
  /\ shut' = shut + 1
  /\ pc' = IF inPoll /\ pc = "check" THEN "join" ELSE pc
  /\ UNCHANGED <<now, cproc, li, nsent, nbcast>>

\* main leaves sa.sa_flags unset (struct sigaction sa; with no initialiser),
\* so the flags are whatever the stack held: with SA_RESETHAND among them the
\* handler is dropped after its first run and the next signal ends the process.
SignalDefault ==
  /\ alive
  /\ shut > 0
  /\ alive' = FALSE
  /\ UNCHANGED <<server, fdtab, fs, pipe, now, cproc, pc, li, nsent, nbcast,
                 shut, last, got>>

Next ==
  \/ \E p \in Procs : ClientStart(p)
  \/ \E p \in Procs : ClientRead(p)
  \/ \E p \in Procs : AddClient(p)
  \/ \E idx \in 0..MAXCLIENTS : RemoveClient(idx)
  \/ \E mesg \in BroadcastInputs : Broadcast(mesg)
  \/ Shutdown

Spec == Init /\ [][Next]_vars

NextMsg ==
  \/ \E p \in Procs : ClientStart(p)
  \/ \E p \in Procs : ClientSend(p)
  \/ \E p \in Procs : ClientEOF(p)
  \/ \E p \in Procs : ClientRead(p)
  \/ \E p \in Procs : AddClient(p)
  \/ \E idx \in 0..MAXCLIENTS : RemoveClient(idx)
  \/ \E idx \in 0..(MAXCLIENTS - 1) : HandleClient(idx)
  \/ Shutdown

SpecMsg == Init /\ [][NextMsg]_vars

\* The functions that keep the table, with closes that may fail.
NextFault ==
  \/ \E p \in Procs : ClientStart(p)
  \/ \E p \in Procs : ClientRead(p)
  \/ \E p \in Procs : AddClient(p)
  \/ \E idx \in 0..MAXCLIENTS : RemoveClient(idx)
  \/ \E idx \in 0..(MAXCLIENTS - 1), k \in 1..2 : RemoveClientCloseFails(idx, k)

SpecFault == Init /\ [][NextFault]_vars

\* The service functions around poll: server_check_sources and
\* server_handle_client, on a table that server_add_client has filled, with
\* records of every kind in the to-server FIFOs.  As many client processes
\* start as the table holds.
NextPoll ==
  \/ \E p \in 1..MAXCLIENTS : ClientStart(p)
  \/ \E p \in 1..MAXCLIENTS, kind \in WriteKinds : ClientWrite(p, kind)
  \/ \E p \in 1..MAXCLIENTS : AddClient(p)
  \/ Tick
  \/ CheckSources
  \/ \E idx \in 0..(MAXCLIENTS - 1) : HandleClient(idx)

SpecPoll == Init /\ [][NextPoll]_vars

\* The program bl_client.c, its three threads each at their own pace, next
\* to a caller of the service functions that pings, handles and shuts down.
\* One client process less than the table holds is started.
NextClient ==
  \/ \E p \in 1..(MAXCLIENTS - 1) : ClientMain(p)
  \/ \E p \in Procs : MainCreateReader(p)
  \/ \E p \in Procs : MainJoinUser(p)
  \/ \E p \in Procs : MainJoinReader(p)
  \/ \E p \in Procs : UserLine(p)
  \/ \E p \in Procs : UserEOF(p)
  \/ \E p \in Procs, stale \in StaleCancel : UserCancel(p, stale)
  \/ \E p \in Procs : ReaderRead(p)
  \/ \E p \in Procs, stale \in StaleCancel : ReaderCancel(p, stale)
  \/ \E p \in Procs : AddClient(p)
  \/ \E mesg \in BroadcastInputs : Broadcast(mesg)
  \/ \E idx \in 0..(MAXCLIENTS - 1) : HandleClient(idx)
  \/ Tick
  \/ Shutdown

SpecClient == Init /\ [][NextClient]_vars

\* The same under fair scheduling: a reader that has a record to read gets
\* to read it (the thread is runnable and the kernel runs it), and the
\* caller of the service functions gets to a client that has a record.
SpecClientFair ==
  /\ SpecClient
  /\ \A p \in Procs : WF_vars(ReaderRead(p))
  /\ \A idx \in 0..(MAXCLIENTS - 1) : WF_vars(HandleClient(idx))

\* The program bl_client.c as in SpecClient, with the signals that its
\* handler grace_leave takes.
NextLeave ==
  \/ NextClient
  \/ \E p \in Procs : GraceLeave(p)

SpecLeave == Init /\ [][NextLeave]_vars

\* The program bl_server.c.  Its table stays empty (server_handle_join adds
\* no client), so no client's reader ever has a record to read.
NextMain ==
  \/ \E p \in Procs : ClientStart(p)
  \/ \E p \in Procs : ClientSend(p)
  \/ \E p \in Procs : ClientEOF(p)
  \/ Tick
  \/ MainCheckSources
  \/ MainJoin
  \/ MainClients
  \/ \E inPoll \in BOOLEAN : Signal(inPoll)
  \/ SignalDefault

SpecMain == Init /\ [][NextMain]_vars

\* ------------------------------------------------------------------ claims
JoinFifo == JoinFifoName(ServerName)

\* The to-client pipe of every client in the table of srv has grown by the
\* one record mesg, at its tail, and no other to-client pipe has changed.
DeliveredToTable(srv, mesg) ==
  \A q \in Procs :
     pipe'[ToClientFname(q)] =
       IF \E j \in 0..(srv.n_clients - 1) :
             srv.client[j].to_client_fname = ToClientFname(q)
         THEN Append(pipe[ToClientFname(q)], mesg)
         ELSE pipe[ToClientFname(q)]

\* C1 (as claimed): a server_handle_join that runs on a ready join while
\* n_clients < MAXCLIENTS takes one join record off the join FIFO, stores a
\* client record with its name and FIFO paths at index n_clients, counts it,
\* and writes one BL_JOINED record with that name to every client of the
\* table, the new one included.
C1_HandleJoinAddsClient ==
  [][ ( /\ MainJoin
        /\ server_join_ready(World) # 0
        /\ IsOpen(World, server.join_fd)
        /\ server.n_clients < MAXCLIENTS )
      => LET join == Head(pipe[JoinFifo])
             n == server.n_clients
         IN  /\ pipe'[JoinFifo] = Tail(pipe[JoinFifo])
             /\ server'.n_clients = n + 1
             /\ server'.client[n].name = join.name
             /\ server'.client[n].to_client_fname = join.to_client_fname
             /\ server'.client[n].to_server_fname = join.to_server_fname
             /\ DeliveredToTable(server', Mesg(BL_JOINED, join.name, ""))
    ]_vars

\* The record server_handle_client(idx) is about to read.
Incoming(idx) == Head(pipe[server.client[idx].to_server_fname])

\* C2 (as claimed): when server_handle_client reads a BL_MESG record from
\* client idx, that same record is written to every client of the table,
\* the sender included.
C2_MesgEchoedToAll ==
  [][ \A idx \in 0..(MAXCLIENTS - 1) :
        (HandleClient(idx) /\ Incoming(idx).kind = BL_MESG)
        => DeliveredToTable(server, Incoming(idx))
    ]_vars

\* C3 (as claimed): when server_handle_client reads a BL_DEPARTED record
\* from the client at idx, that client leaves the table (n_clients drops by
\* one) and one BL_DEPARTED record with its name is written to each client
\* that remains, none to the one that left.
C3_DepartedRemovesAndTells ==
  [][ \A idx \in 0..(MAXCLIENTS - 1) :
        (HandleClient(idx) /\ Incoming(idx).kind = BL_DEPARTED)
        => /\ server'.n_clients = server.n_clients - 1
           /\ \A j \in 0..(server'.n_clients - 1) :
                 server'.client[j].to_client_fname
                   # server.client[idx].to_client_fname
           /\ DeliveredToTable(server',
                Mesg(BL_DEPARTED, server.client[idx].name, ""))
    ]_vars

\* C4: every broadcast of a record that is not a BL_PING (a direct call, the
\* BL_JOINED of server_add_client, the BL_SHUTDOWN of server_shutdown) puts
\* exactly one copy at the tail of the to-client pipe of each client that is
\* in the table at that moment, behind the copies of all earlier broadcasts,
\* and touches no other to-client pipe; no step reorders a to-client pipe
\* (a step leaves it alone, takes its oldest record or adds one at its tail).
C4_BroadcastOnceInOrder ==
  [][ /\ \A mesg \in BroadcastInputs :
           (Broadcast(mesg) /\ mesg.kind # BL_PING)
           => DeliveredToTable(server, mesg)
      /\ \A p \in Procs :
           (AddClient(p) /\ server.n_clients < MAXCLIENTS)
           => DeliveredToTable(server', Mesg(BL_JOINED, cproc[p].name, ""))
      /\ Shutdown => DeliveredToTable(server, Mesg(BL_SHUTDOWN, "", ""))
      /\ \A q \in Procs :
           LET old == pipe[ToClientFname(q)]
               new == pipe'[ToClientFname(q)]
           IN  \/ new = old
               \/ old # <<>> /\ new = Tail(old)
               \/ Len(new) = Len(old) + 1 /\ SubSeq(new, 1, Len(old)) = old
    ]_vars

\* C4 witness: a direct broadcast has put its record behind the BL_JOINED
\* that a client of the table had not read yet.
C4_Witness ==
  /\ last.op = "broadcast"
  /\ \E p \in Procs :
        /\ InTable(p)
        /\ Len(pipe[ToClientFname(p)]) = 2
        /\ pipe[ToClientFname(p)][1].kind = BL_JOINED
        /\ pipe[ToClientFname(p)][2].kind = BL_MESG

\* C5 (as claimed): when server_shutdown returns, whatever the number of
\* clients it started with, the table is empty and both FIFO paths of every
\* former client are unlinked.
C5_ShutdownEmptiesTable ==
  [][ Shutdown
      => /\ server'.n_clients = 0
         /\ \A j \in 0..(server.n_clients - 1) :
               /\ server.client[j].to_client_fname \notin fs'
               /\ server.client[j].to_server_fname \notin fs'
    ]_vars

\* C6: server_shutdown writes one BL_SHUTDOWN record to every client that is
\* in the table when it begins; the write goes through the client's
\* descriptor, so it comes before that descriptor is closed.
C6_ShutdownTellsEveryClient ==
  [][ Shutdown
      => \A j \in 0..(server.n_clients - 1) :
            /\ IsOpen(World, server.client[j].to_client_fd)
            /\ pipe'[server.client[j].to_client_fname] =
                 Append(pipe[server.client[j].to_client_fname],
                        Mesg(BL_SHUTDOWN, "", ""))
    ]_vars

\* C6 witness: shutdown has run on a table of two clients; both have the
\* BL_SHUTDOWN record in their pipes, and the record and FIFOs of one are gone.
C6_Witness ==
  /\ last.op = "shutdown"
  /\ \E p, q \in Procs :
        /\ p # q
        /\ ~InTable(p)
        /\ ToClientFname(p) \notin fs
        /\ \A r \in {p, q} :
              /\ pipe[ToClientFname(r)] # <<>>
              /\ pipe[ToClientFname(r)][Len(pipe[ToClientFname(r)])].kind
                   = BL_SHUTDOWN

\* C7 (as claimed): once server_shutdown has run, the join FIFO is gone
\* from the filesystem and its descriptor is closed.
C7_JoinFifoGone ==
  shut > 0 => (JoinFifo \notin fs /\ ~IsOpen(World, server.join_fd))

\* C8 (as claimed): once a signal has made server_shutdown run to its end,
\* main polls no more and handles no join and no client.
C8_LoopEndsAfterShutdown ==
  [][ shut > 0 => ~(MainCheckSources \/ MainJoin \/ MainClients) ]_vars

\* C9: a server_add_client that meets a full table returns non-zero and
\* leaves the table, n_clients, the descriptors and every pipe as they were.
C9_FullTableRefuses ==
  [][ \A p \in Procs :
        (AddClient(p) /\ server.n_clients = MAXCLIENTS)
        => /\ last'.ret # 0
           /\ server' = server
           /\ fdtab' = fdtab
           /\ pipe' = pipe
    ]_vars

\* C9 witness: a join was refused at a full table.
C9_Witness ==
  /\ last = [op |-> "add_client", ret |-> -1]
  /\ server.n_clients = MAXCLIENTS
  /\ \E p \in Procs : cproc[p].st # "off" /\ ~InTable(p)

\* C10: 0 <= n_clients <= MAXCLIENTS in every state.
C10_ClientCountInBounds ==
  0 <= server.n_clients /\ server.n_clients <= MAXCLIENTS

\* C10 witness: the table is full and a client's record has just been handled.
C10_Witness ==
  /\ server.n_clients = MAXCLIENTS
  /\ last.op = "handle_client"

\* The client processes on whose to-client FIFO the server holds an open
\* descriptor: the live client records.
LiveProcs ==
  {p \in Procs : \E fd \in FdRange : fdtab[fd] = ToClientFname(p)}

C12_FlagsMatchReadable ==
  [][ CheckSources
      => /\ (server'.join_ready = 1) <=> (pipe[JoinFifo] # <<>>)
         /\ \A i \in 0..(server.n_clients - 1) :
               (server'.client[i].data_ready = 1)
                 <=> (pipe[server.client[i].to_server_fname] # <<>>)
    ]_vars

\* The kinds server_handle_client is to ignore; kind 0 stands for the unknown.
IgnoredKinds == {BL_PING, BL_DISCONNECTED, BL_SHUTDOWN, BL_NONE}

\* C13: when server_handle_client reads a record of kind BL_PING,
\* BL_DISCONNECTED, BL_SHUTDOWN or of an unknown kind from client idx, the
\* table keeps its members and their order, no record is written to any
\* client, no descriptor or path changes; only that client's
\* last_contact_time (set to the time of the call) and data_ready (cleared)
\* change.
C13_IgnoredKindsTouchContactOnly ==
  [][ \A idx \in 0..(MAXCLIENTS - 1) :
        (HandleClient(idx) /\ Incoming(idx).kind \in IgnoredKinds)
        => /\ server' = [server EXCEPT !.client[idx].last_contact_time = now,
                                         !.client[idx].data_ready = 0]
           /\ \A q \in Procs : pipe'[ToClientFname(q)] = pipe[ToClientFname(q)]
           /\ fdtab' = fdtab
           /\ fs' = fs
           /\ alive'
    ]_vars

\* C13 witness: a BL_SHUTDOWN record has just been handled in a table of two
\* and did nothing but move its sender's last_contact_time on to the present.
C13_Witness ==
  /\ last.op = "handle_client"
  /\ got.kind = BL_SHUTDOWN
  /\ server.n_clients = 2
  /\ now > 0
  /\ \E idx \in 0..1 :
        /\ server.client[idx].name = got.name
        /\ server.client[idx].last_contact_time = now
        /\ server.client[1 - idx].last_contact_time < now

\* C14 (as claimed): on end of input user_worker writes exactly one
\* BL_DEPARTED record with the client's name to the to-server FIFO and only
\* then cancels server_worker: the write leaves server_worker as it was,
\* user_worker writes nothing after it, and the pthread_cancel that follows
\* leaves user_worker returned, server_worker stopped (cancelled, or past
\* its loop already) and the process on its way to a normal end.
C14_EofDepartsThenCancels ==
  [][ \A p \in Procs :
        /\ UserEOF(p)
           => /\ pipe'[ToServerFname(p)] =
                   Append(pipe[ToServerFname(p)],
                          Mesg(BL_DEPARTED, cproc[p].name, ""))
              /\ cproc'[p].r = cproc[p].r
        /\ (cproc[p].u \in {"cancel", "returned"} /\ ~ReaderRead(p))
           => Len(pipe'[ToServerFname(p)]) <= Len(pipe[ToServerFname(p)])
        /\ (\E stale \in StaleCancel : UserCancel(p, stale))
           => /\ cproc'[p].st = "on"
              /\ cproc'[p].u = "returned"
              /\ cproc'[p].r \in {"cancelled", "cancel", "returned"}
    ]_vars

\* C15 (as claimed): once server_worker has read a BL_SHUTDOWN record, the
\* client process writes no further record to its to-server FIFO, and the
\* pthread_cancel that follows leaves server_worker returned, user_worker
\* stopped (cancelled, or past its loop already) and the process on its way
\* to a normal end.
C15_ShutdownEndsClient ==
  [][ \A p \in Procs :
        /\ cproc[p].r \in {"cancel", "returned"}
           => Len(pipe'[ToServerFname(p)]) <= Len(pipe[ToServerFname(p)])
        /\ (\E stale \in StaleCancel : ReaderCancel(p, stale))
           => /\ cproc'[p].st = "on"
              /\ cproc'[p].r = "returned"
              /\ cproc'[p].u \in {"cancelled", "cancel", "returned"}
    ]_vars

\* The BL_PING records in a pipe.
PingCount(q) == Cardinality({i \in 1..Len(q) : q[i].kind = BL_PING})

\* The reader of client process p is at work.
Live(p) == cproc[p].st = "on" /\ cproc[p].r = "poll"

\* Client process p takes a BL_PING record off its to-client FIFO.
ReadsPing(p) ==
  /\ ReaderRead(p)
  /\ Head(pipe[ToClientFname(p)]).kind = BL_PING

C17_SenderOrderKept ==
  [][ \A idx \in 0..(MAXCLIENTS - 1) :
        LET fifo == pipe[server.client[idx].to_server_fname] IN
        ( /\ HandleClient(idx)
          /\ Len(fifo) >= 2
          /\ fifo[1].kind = BL_MESG /\ fifo[2].kind = BL_MESG )
        => /\ pipe'[server.client[idx].to_server_fname] = Tail(fifo)
           /\ DeliveredToTable(server, fifo[1])
    ]_vars

\* C19: whenever main is about to enter poll at the head of its loop,
\* join_ready is 0 and data_ready is 0 for every client of the table: no
\* flag set in one turn of the loop is still set in the next.
C19_FlagsClearAtPoll ==
  (alive /\ pc = "check")
  => /\ server.join_ready = 0
     /\ \A i \in 0..(server.n_clients - 1) : server.client[i].data_ready = 0

\* C19 witness: main is back at poll after a turn in which join_ready was
\* set and server_handle_join took a join record, and a further join waits.
C19_Witness ==
  /\ alive /\ pc = "check"
  /\ last.op = "handle_join"
  /\ got = Join(ClientName(1), 1)
  /\ pipe[JoinFifo] # <<>>

\* C20 (as claimed): a server_remove_client at a valid index whose close of
\* one of the client's two descriptors fails reports the failure and still
\* removes the record: the records behind it move down one slot, n_clients
\* drops by one, and the record is no longer in the table.
C20_RemovesDespiteCloseFailure ==
  [][ \A idx \in 0..(MAXCLIENTS - 1), k \in 1..2 :
        RemoveClientCloseFails(idx, k)
        => /\ last'.ret # 0
           /\ server'.n_clients = server.n_clients - 1
           /\ \A j \in 0..(server.n_clients - 2) :
                 server'.client[j] =
                   IF j < idx THEN server.client[j] ELSE server.client[j + 1]
           /\ \A j \in 0..(server'.n_clients - 1) :
                 server'.client[j].to_client_fname
                   # server.client[idx].to_client_fname
    ]_vars

\* No readiness flag of the server is set.
NoFlagSet(srv) ==
  /\ srv.join_ready = 0
  /\ \A i \in 0..(MAXCLIENTS - 1) : srv.client[i].data_ready = 0

\* C21: a server_check_sources whose poll a signal interrupts returns with
\* join_ready and every data_ready as they were, which is 0; and in a turn
\* of the loop in which no flag is set, the flags stay clear and main reads
\* no join record and no client record, so the turn that follows an
\* interrupted poll handles no join and no client.
C21_InterruptedPollHandlesNothing ==
  [][ /\ (Signal(TRUE) /\ pc = "check")
         => /\ server'.join_ready = server.join_ready
            /\ \A i \in 0..(MAXCLIENTS - 1) :
                  server'.client[i].data_ready = server.client[i].data_ready
            /\ NoFlagSet(server')
            /\ pc' = "join"
      /\ (pc \in {"join", "clients"} /\ NoFlagSet(server))
         => /\ NoFlagSet(server')
            /\ Len(pipe'[JoinFifo]) >= Len(pipe[JoinFifo])
            /\ \A p \in Procs :
                  Len(pipe'[ToServerFname(p)]) >= Len(pipe[ToServerFname(p)])
            /\ last' # last
                  => last'.op \notin {"handle_join", "handle_client"}
    ]_vars

\* C21 witness: a signal has interrupted the poll while a join record was
\* waiting; main is past server_check_sources with join_ready still 0.
C21_Witness ==
  /\ alive /\ pc = "join"
  /\ shut = 1 /\ last.op = "shutdown"
  /\ server.join_ready = 0
  /\ pipe[JoinFifo] # <<>>

\* C22: a SIGINT or SIGTERM that arrives while main is inside a turn of its
\* loop (past server_check_sources, before the client loop has ended) only
\* records the request: the step of the handler leaves the server, its
\* descriptors and the files as they were, so that no shutdown work is done
\* while join handling or client handling of that turn is still to come.
C22_ShutdownNotInsideTick ==
  [][ (shut' # shut /\ pc \in {"join", "clients"})
        => /\ server' = server
           /\ fdtab' = fdtab
           /\ fs' = fs
           /\ pipe' = pipe
    ]_vars

\* C23: the table never holds more than MAXCLIENTS clients, and a call of
\* server_check_sources reads client records only at indices i with
\* 0 <= i < n_clients, the slots of the live table.
C23_IndicesInsideLiveTable ==
  [][ /\ server.n_clients >= 0 /\ server.n_clients <= MAXCLIENTS
      /\ CheckSources
           => \A i \in PollFdClientSlots(World) :
                 0 <= i /\ i < server.n_clients
    ]_vars

\* The client process p has written a BL_DEPARTED record to the server: its
\* user_worker is past the write at end of input, or grace_leave has run.
HasDeparted(p) ==
  \/ cproc[p].u \in {"cancel", "returned"}
  \/ cproc[p].m = "exited"

\* C24: once a client process has written its BL_DEPARTED record it writes
\* nothing more to its to-server FIFO, neither a second BL_DEPARTED nor a
\* BL_PING reply nor a line, whichever of user_worker, server_worker and
\* grace_leave runs next.
C24_NothingAfterDeparted ==
  [][ \A p \in Procs :
        HasDeparted(p)
          => Len(pipe'[ToServerFname(p)]) <= Len(pipe[ToServerFname(p)])
    ]_vars

====
